---- MODULE Spec2Model ----
(***************************************************************************)
(* A model of the want_to_have_a_pie crew: the VisionTool adapter          *)
(* (tools/vision_tool.py) with its image preprocessor, and the sequential  *)
(* four-task crew (crew.py) whose first agent calls the tool.              *)
(***************************************************************************)
EXTENDS Integers, Sequences, FiniteSets, TLC

(***************************************************************************)
(* IEEE-754 binary64 arithmetic, as far as _encode_image uses it.          *)
(* A float is [mant, exp]: mant is a sequence of MantBits bits, most       *)
(* significant first and leading bit 1, and the value is mant * 2^exp.     *)
(* Integers here are 32 bits wide, so the mantissa is kept as bits.        *)
(***************************************************************************)
MantBits == 53

\* The bits of n, most significant first, in a field of the given width.
BitsOf(n, width) == [i \in 1..width |-> (n \div 2^(width - i)) % 2]

\* The number of bits of n >= 0 (0 for 0).
BitLen(n) == IF n = 0 THEN 0 ELSE CHOOSE k \in 1..31 : n \div 2^(k - 1) = 1

\* The number a bit sequence (most significant first, below 2^31) denotes.
RECURSIVE ToInt(_)
ToInt(bits) ==
    IF Len(bits) = 0 THEN 0
    ELSE IF Len(bits) = 1 THEN bits[1]
    ELSE LET h == Len(bits) \div 2
         IN  ToInt(SubSeq(bits, 1, h)) * 2^(Len(bits) - h)
             + ToInt(SubSeq(bits, h + 1, Len(bits)))

\* bits + 1, most significant first; all ones carry into one more bit.
IncBits(bits) ==
    LET zeros == {i \in 1..Len(bits) : bits[i] = 0}
    IN  IF zeros = {} THEN <<1>> \o [i \in 1..Len(bits) |-> 0]
        ELSE LET k == CHOOSE i \in zeros : \A j \in zeros : j <= i
             IN  [i \in 1..Len(bits) |->
                     IF i < k THEN bits[i] ELSE IF i = k THEN 1 ELSE 0]

\* Round bits * 2^exp (plus a nonzero tail below the last bit when sticky)
\* to MantBits bits, to nearest, ties to even.
RoundNearestEven(bits, exp, sticky) ==
    IF Len(bits) <= MantBits
    THEN [mant |-> bits \o [i \in 1..(MantBits - Len(bits)) |-> 0],
          exp  |-> exp - (MantBits - Len(bits))]
    ELSE LET drop  == Len(bits) - MantBits
             keep  == SubSeq(bits, 1, MantBits)
             guard == bits[MantBits + 1]
             tail  == sticky \/ \E i \in (MantBits + 2)..Len(bits) : bits[i] = 1
             up    == guard = 1 /\ (tail \/ keep[MantBits] = 1)
             inc   == IncBits(keep)
         IN  IF ~up THEN [mant |-> keep, exp |-> exp + drop]
             ELSE IF Len(inc) = MantBits THEN [mant |-> inc, exp |-> exp + drop]
             ELSE [mant |-> SubSeq(inc, 1, MantBits), exp |-> exp + drop + 1]

\* The binary exponent e with b * 2^e <= a < b * 2^(e+1), for a, b > 0.
NormShift(a, b) == IF a >= b THEN BitLen(a \div b) - 1
                   ELSE 0 - BitLen((b - 1) \div a)

\* Long division, LimbBits quotient bits a step: the remainder after n steps.
LimbBits == 9

RECURSIVE DivRem(_, _, _)
DivRem(num, den, n) ==
    IF n = 0 THEN num % den ELSE (DivRem(num, den, n - 1) * 2^LimbBits) % den

\* The first 1 + n * LimbBits bits of num / den, where den <= num < 2 * den.
RECURSIVE DivBits(_, _, _)
DivBits(num, den, n) ==
    IF n = 0 THEN <<num \div den>>
    ELSE DivBits(num, den, n - 1)
         \o BitsOf((DivRem(num, den, n - 1) * 2^LimbBits) \div den, LimbBits)

\* Python's a / b for ints a, b > 0: the correctly rounded quotient.
TrueDiv(a, b) ==
    LET e     == NormShift(a, b)
        num   == IF e < 0 THEN a * 2^(0 - e) ELSE a
        den   == IF e > 0 THEN b * 2^e ELSE b
        steps == (MantBits + LimbBits - 1) \div LimbBits
        bits  == DivBits(num, den, steps)
    IN  RoundNearestEven(bits, e - (Len(bits) - 1), DivRem(num, den, steps) # 0)

\* The bits of w times the first i bits of bits, plus carry: schoolbook
\* multiplication from the low end, LimbBits bits a step.
RECURSIVE MulBits(_, _, _, _)
MulBits(bits, i, w, carry) ==
    IF i = 0 THEN BitsOf(carry, BitLen(carry))
    ELSE LET k == IF i < LimbBits THEN i ELSE LimbBits
             t == ToInt(SubSeq(bits, i - k + 1, i)) * w + carry
         IN  MulBits(bits, i - k, w, t \div 2^k) \o BitsOf(t % 2^k, k)

\* Python's n * x for an int n > 0 and a float x: n converts exactly, and
\* the product is rounded once.
MulIntFloat(n, x) ==
    RoundNearestEven(MulBits(x.mant, MantBits, n, 0), x.exp, FALSE)

\* Python's int(x) for a float x >= 0 below 2^31: truncation.
IntOf(x) ==
    IF x.exp >= 0 THEN ToInt(x.mant) * 2^(x.exp)
    ELSE IF MantBits + x.exp <= 0 THEN 0
    ELSE ToInt(SubSeq(x.mant, 1, MantBits + x.exp))

Max(a, b) == IF a >= b THEN a ELSE b

(***************************************************************************)
(* Python values.  An Optional[str] is <<>> (None) or <<s>>; an exception  *)
(* is [type, msg], and str(e) is its msg.                                  *)
(***************************************************************************)
None == <<>>
Some(v) == <<v>>

\* Python's truth value of an Optional[str]: None and "" are false.
Truthy(opt) == opt # None /\ opt[1] # ""

Exc(type, msg) == [type |-> type, msg |-> msg]
Ok(v) == [ok |-> TRUE, value |-> v]
Raises(e) == [ok |-> FALSE, exc |-> e]

\* Whether text t contains s.
Contains(t, s) ==
    \E i \in 1..(Len(t) - Len(s) + 1) : SubSeq(t, i, i + Len(s) - 1) = s

StartsWith(t, s) == Len(t) >= Len(s) /\ SubSeq(t, 1, Len(s)) = s

(***************************************************************************)
(* The image preprocessor, VisionTool._encode_image.                       *)
(***************************************************************************)
max_size == 2048

\* Modes Image.open can give the image, and those Pillow's JPEG encoder writes.
Modes == {"L", "LA", "P", "RGB", "RGBA", "CMYK", "I;16"}
JpegModes == {"1", "L", "RGB", "RGBX", "CMYK", "YCbCr"}

\* img.convert('RGB') for the modes the code names.
ConvertMode(mode) == IF mode \in {"RGBA", "P"} THEN "RGB" ELSE mode

\* new_size of _encode_image for an image of size <<w, h>> that is too large.
NewSize(size) ==
    LET ratio == TrueDiv(max_size, Max(size[1], size[2]))
    IN  <<IntOf(MulIntFloat(size[1], ratio)), IntOf(MulIntFloat(size[2], ratio))>>

Margin == 1

\* Image sides: small ones, those around max_size, and larger ones, among
\* them sides whose float ratio times the side falls short of max_size.
Sides == {1, 1000, 2215, 3000}
         \cup ((max_size - Margin)..(max_size + Margin))

\* What Image.open finds in a file: an image, or no image at all.
Images == [mode : Modes, size : Sides \X Sides]
NotAnImage == [mode |-> "", size |-> <<0, 0>>]

\* The image _encode_image hands to img.save, or the exception of img.resize.
Prepare(src) ==
    LET mode == ConvertMode(src.mode)
    IN  IF Max(src.size[1], src.size[2]) > max_size
        THEN LET new_size == NewSize(src.size)
             IN  IF new_size[1] < 1 \/ new_size[2] < 1
                 THEN Raises(Exc("ValueError", "height and width must be > 0"))
                 ELSE Ok([mode |-> mode, size |-> new_size])
        ELSE Ok([mode |-> mode, size |-> src.size])

\* Image.open on a file, then convert and resize.
Open(image_path, src) ==
    IF src = NotAnImage
    THEN Raises(Exc("UnidentifiedImageError",
                    "cannot identify image file '" \o image_path \o "'"))
    ELSE Prepare(src)

\* img.save(format='JPEG', quality=85): the JPEG written, or Pillow's error.
SaveJpeg(img) ==
    IF img.mode \in JpegModes
    THEN Ok([format |-> "JPEG", mode |-> img.mode, size |-> img.size])
    ELSE Raises(Exc("OSError", "cannot write mode " \o img.mode \o " as JPEG"))

\* The except clause of _encode_image.
EncodeFailed(e) == Exc("Exception", "Failed to encode image: " \o e.msg)

(***************************************************************************)
(* The crew of crew.py: four agents, four tasks, Process.sequential.       *)
(***************************************************************************)
max_iter == 3

agents ==
    [vision_food_estimator |-> [tools |-> {"VisionTool"}, max_iter |-> max_iter],
     recipe_hunter |-> [tools |-> {"SerperDevTool"}, max_iter |-> max_iter],
     choose_recipe_and_ingredients |->
         [tools |-> {"FirecrawlScrapeWebsiteTool"}, max_iter |-> max_iter],
     html_formatter |->
         [tools |-> {"FirecrawlScrapeWebsiteTool"}, max_iter |-> max_iter]]

\* A crew whose class defines find_ingredients_task before find_recipe_task.
tasks_Reordered ==
    <<[name |-> "food_estimation_task", output_file |-> None],
      [name |-> "find_ingredients_task", output_file |-> None],
      [name |-> "find_recipe_task", output_file |-> None],
      [name |-> "html_format_task",
       output_file |-> Some("recipe_recommendations.html")]>>

\* The @task methods in the order the class defines them; output_file is
\* None where the Task is given none.
tasks ==
    <<[name |-> "food_estimation_task", output_file |-> None],
      [name |-> "find_recipe_task", output_file |-> None],
      [name |-> "find_ingredients_task", output_file |-> None],
      [name |-> "html_format_task",
       output_file |-> Some("recipe_recommendations.html")]>>

\* The agent each task names in config/tasks.yaml.
AgentOf(task_name) ==
    CASE task_name = "food_estimation_task" -> "vision_food_estimator"
      [] task_name = "find_recipe_task" -> "recipe_hunter"
      [] task_name = "find_ingredients_task" -> "choose_recipe_and_ingredients"
      [] task_name = "html_format_task" -> "html_formatter"

(***************************************************************************)
(* The world the tool runs in.                                             *)
(***************************************************************************)

Paths == {"plate.jpg", "no_such.jpg"}

\* The prompt argument of a call: absent, empty, or the caller's own.
Prompts == {None, Some(""), Some("List the fruit on the plate.")}

DefaultPrompt ==
    "Analyze this image and identify all food items visible. "
    \o "For each food item, provide:\n"
    \o "- Descriptive name (suitable for recipe searches)\n"
    \o "- Estimated weight in grams\n"
    \o "- Confidence level (percentage)\n\n"
    \o "Format as a list like:\n"
    \o "- watermelon chunks: 350g (95% confidence)\n"
    \o "- banana: 120g (90% confidence)\n\n"
    \o "Only include items where confidence is 90% or higher."

\* The process environment: OPENAI_API_KEY unset, empty, or set.
Environments ==
    {[n \in {} |-> ""]} \cup [{"OPENAI_API_KEY"} -> {"", "sk-proj-1"}]

\* What client.chat.completions.create can do: raise, or answer with a
\* response whose choices carry the message contents.
ApiErrors ==
    {Exc("AuthenticationError", "Error code: 401 - Incorrect API key provided"),
     Exc("RateLimitError", "Error code: 429 - Rate limit reached"),
     Exc("APIConnectionError", "Connection error.")}

Responses ==
    {[choices |-> <<>>],
     [choices |-> <<None>>],
     [choices |-> <<Some("")>>],
     [choices |-> <<Some("- banana: 120g (90% confidence)")>>]}

VARIABLES
    environ,       \* os.environ, as far as the tool reads it
    files,         \* the paths that exist
    crew_state,    \* "ready", "running", "finished" or "failed"
    started,       \* the names of the tasks started, in order
    outputs,       \* the outputs of the tasks completed, in order
    written,       \* the output files written: <<file name, content>> pairs
    iterations,    \* tool calls the running task's agent has made
    pc,            \* where the current _run call is
    args,          \* the arguments of the current (or last) _run call
    prompt,        \* _run's local prompt, once defaulted
    img,           \* the image _encode_image is about to save, with its source
    base64_image,  \* _run's local base64_image: the JPEG it encodes
    steps,         \* the external calls the current _run call has made
    response,      \* the response of the completion request, if one came
    caught,        \* the exception _run's except clauses caught, if any
    returned       \* what the current _run call handed its caller

vars == <<environ, files, crew_state, started, outputs, written, iterations,
          pc, args, prompt, img, base64_image, steps, response, caught,
          returned>>

crew_vars == <<crew_state, started, outputs, written, iterations>>
world_vars == <<environ, files>>

(***************************************************************************)
(* VisionTool._run and what it calls.                                      *)
(***************************************************************************)
\* os.getenv(name)
GetEnv(name) == IF name \in DOMAIN environ THEN Some(environ[name]) ELSE None

\* VisionTool._get_openai_client
_get_openai_client ==
    LET api_key == GetEnv("OPENAI_API_KEY")
    IN  IF ~Truthy(api_key)
        THEN Raises(Exc("ValueError",
                        "OPENAI_API_KEY environment variable is required"))
        ELSE Ok([api_key |-> api_key[1]])

\* A message that leaves the path out.
NotFoundText_NoPath(image_path) == "Error: Image file not found"

NotFoundText(image_path) == "Error: Image file not found at " \o image_path

\* Except clauses without the one for openai.RateLimitError.
Handle_NoRateLimit(e) ==
    IF e.type = "AuthenticationError"
    THEN [kind |-> "return",
          value |-> "Error: Invalid OpenAI API key. Please check your "
                    \o "OPENAI_API_KEY environment variable."]
    ELSE [kind |-> "return", value |-> "Error analyzing image: " \o e.msg]

\* Except clauses that let a ValueError through to the caller.
Handle_Reraises(e) ==
    IF e.type = "AuthenticationError"
    THEN [kind |-> "return",
          value |-> "Error: Invalid OpenAI API key. Please check your "
                    \o "OPENAI_API_KEY environment variable."]
    ELSE IF e.type = "RateLimitError"
    THEN [kind |-> "return",
          value |-> "Error: OpenAI API rate limit exceeded. "
                    \o "Please try again later."]
    ELSE IF e.type = "ValueError"
    THEN [kind |-> "raise", value |-> e.msg]
    ELSE [kind |-> "return", value |-> "Error analyzing image: " \o e.msg]

\* The except clauses of _run: what the call hands back for an exception.
Handle(e) ==
    IF e.type = "AuthenticationError"
    THEN [kind |-> "return",
          value |-> "Error: Invalid OpenAI API key. Please check your "
                    \o "OPENAI_API_KEY environment variable."]
    ELSE IF e.type = "RateLimitError"
    THEN [kind |-> "return",
          value |-> "Error: OpenAI API rate limit exceeded. "
                    \o "Please try again later."]
    ELSE [kind |-> "return", value |-> "Error analyzing image: " \o e.msg]

\* A result that falls back for None alone: content if content is not None.
ResultOf_NoneOnly(resp) ==
    IF Len(resp.choices) = 0
    THEN Raises(Exc("IndexError", "list index out of range"))
    ELSE LET content == resp.choices[1]
         IN  Ok(IF content # None THEN content[1] ELSE "No response received")

\* result = response.choices[0].message.content or "No response received"
ResultOf(resp) ==
    IF Len(resp.choices) = 0
    THEN Raises(Exc("IndexError", "list index out of range"))
    ELSE LET content == resp.choices[1]
         IN  Ok(IF Truthy(content) THEN content[1] ELSE "No response received")

\* A _run that fetches the client before it encodes the image.
RunOrder_ClientFirst == <<"exists", "getenv", "open", "save", "create">>

\* The order of _run's external calls.
RunOrder == <<"exists", "open", "save", "getenv", "create">>

NextCall(step) ==
    LET i == CHOOSE k \in 1..Len(RunOrder) : RunOrder[k] = step
    IN  IF i < Len(RunOrder) THEN RunOrder[i + 1] ELSE "done"

\* The call ends: its locals are gone, and the caller holds one outcome.
Finish(outcome) ==
    /\ pc' = "done"
    /\ returned' = Append(returned, outcome)
    /\ prompt' = None
    /\ img' = None
    /\ base64_image' = None

\* return from the try block.
Return(value) ==
    /\ Finish([kind |-> "return", value |-> value])
    /\ caught' = None

\* An exception reaches the except clauses of _run.
Except(e) ==
    /\ Finish(Handle(e))
    /\ caught' = Some(e)

CurrentTask == tasks[Len(started)]

\* The agent of the running task calls the tool: BaseTool.run enters _run.
Invoke(image_path, p) ==
    /\ crew_state = "running"
    /\ "VisionTool" \in agents[AgentOf(CurrentTask.name)].tools
    /\ pc \in {"idle", "done"}
    /\ iterations < agents[AgentOf(CurrentTask.name)].max_iter
    /\ iterations' = iterations + 1
    /\ pc' = RunOrder[1]
    /\ args' = [image_path |-> image_path, prompt |-> p]
    /\ prompt' = None
    /\ img' = None
    /\ base64_image' = None
    /\ steps' = <<>>
    /\ response' = None
    /\ caught' = None
    /\ returned' = <<>>
    /\ UNCHANGED <<world_vars, crew_state, started, outputs, written>>

\* os.path.exists(image_path), then the default prompt.
CheckPath ==
    /\ pc = "exists"
    /\ steps' = Append(steps, pc)
    /\ IF args.image_path \notin files
       THEN Return(NotFoundText(args.image_path))
       ELSE /\ pc' = NextCall(pc)
            /\ prompt' = IF ~Truthy(args.prompt) THEN Some(DefaultPrompt)
                         ELSE args.prompt
            /\ UNCHANGED <<img, base64_image, caught, returned>>
    /\ UNCHANGED <<world_vars, crew_vars, args, response>>

\* _encode_image up to img.save: Image.open, convert, resize.  The file
\* holds any of the images, or no image.
OpenImage ==
    /\ pc = "open"
    /\ steps' = Append(steps, pc)
    /\ \E src \in Images \cup {NotAnImage} :
       \E r \in {Open(args.image_path, src)} :
             IF r.ok
             THEN /\ pc' = NextCall(pc)
                  /\ img' = Some([src |-> src, mode |-> r.value.mode,
                                  size |-> r.value.size])
                  /\ UNCHANGED <<prompt, base64_image, caught, returned>>
             ELSE Except(EncodeFailed(r.exc))
    /\ UNCHANGED <<world_vars, crew_vars, args, response>>

\* The rest of _encode_image: img.save as JPEG, then base64.
SaveImage ==
    /\ pc = "save"
    /\ steps' = Append(steps, pc)
    /\ LET r == SaveJpeg(img[1])
       IN  IF r.ok
           THEN /\ pc' = NextCall(pc)
                /\ base64_image' = Some(r.value)
                /\ img' = None
                /\ UNCHANGED <<prompt, caught, returned>>
           ELSE Except(EncodeFailed(r.exc))
    /\ UNCHANGED <<world_vars, crew_vars, args, response>>

\* client = self._get_openai_client()
GetClient ==
    /\ pc = "getenv"
    /\ steps' = Append(steps, pc)
    /\ LET r == _get_openai_client
       IN  IF r.ok
           THEN /\ pc' = NextCall(pc)
                /\ UNCHANGED <<prompt, img, base64_image, caught, returned>>
           ELSE Except(r.exc)
    /\ UNCHANGED <<world_vars, crew_vars, args, response>>

\* client.chat.completions.create raises.
CreateRaises(e) ==
    /\ pc = "create"
    /\ steps' = Append(steps, pc)
    /\ Except(e)
    /\ UNCHANGED <<world_vars, crew_vars, args, response>>

\* client.chat.completions.create answers, and _run returns the result.
CreateAnswers(resp) ==
    /\ pc = "create"
    /\ steps' = Append(steps, pc)
    /\ response' = Some(resp)
    /\ LET r == ResultOf(resp)
       IN  IF r.ok THEN Return(r.value) ELSE Except(r.exc)
    /\ UNCHANGED <<world_vars, crew_vars, args>>

(***************************************************************************)
(* Crew.kickoff under Process.sequential.                                  *)
(***************************************************************************)
TaskAnswers == {"answer A", "answer B"}

ResetCall ==
    /\ pc' = "idle"
    /\ args' = [image_path |-> "", prompt |-> None]
    /\ prompt' = None
    /\ img' = None
    /\ base64_image' = None
    /\ steps' = <<>>
    /\ response' = None
    /\ caught' = None
    /\ returned' = <<>>

Kickoff ==
    /\ crew_state = "ready"
    /\ crew_state' = "running"
    /\ started' = <<tasks[1].name>>
    /\ UNCHANGED <<world_vars, outputs, written, iterations,
                   pc, args, prompt, img, base64_image, steps, response,
                   caught, returned>>

\* The running task's agent gives its final answer: the output joins the
\* context, the task's output_file is written, and the next task starts.
CompleteTask(answer) ==
    /\ crew_state = "running"
    /\ pc \in {"idle", "done"}
    /\ outputs' = Append(outputs, answer)
    /\ written' = IF CurrentTask.output_file = None THEN written
                  ELSE written \cup {<<CurrentTask.output_file[1], answer>>}
    /\ IF Len(started) < Len(tasks)
       THEN /\ started' = Append(started, tasks[Len(started) + 1].name)
            /\ crew_state' = crew_state
       ELSE /\ started' = started
            /\ crew_state' = "finished"
    /\ iterations' = 0
    /\ ResetCall
    /\ UNCHANGED world_vars

\* The running task raises (its agent's model call fails): the run ends.
TaskFails ==
    /\ crew_state = "running"
    /\ pc \in {"idle", "done"}
    /\ crew_state' = "failed"
    /\ UNCHANGED <<world_vars, started, outputs, written, iterations,
                   pc, args, prompt, img, base64_image, steps, response,
                   caught, returned>>

Init ==
    /\ environ \in Environments
    /\ files \in SUBSET Paths
    /\ crew_state = "ready"
    /\ started = <<>>
    /\ outputs = <<>>
    /\ written = {}
    /\ iterations = 0
    /\ pc = "idle"
    /\ args = [image_path |-> "", prompt |-> None]
    /\ prompt = None
    /\ img = None
    /\ base64_image = None
    /\ steps = <<>>
    /\ response = None
    /\ caught = None
    /\ returned = <<>>

Next ==
    \/ Kickoff
    \/ \E image_path \in Paths, p \in Prompts : Invoke(image_path, p)
    \/ CheckPath
    \/ OpenImage
    \/ SaveImage
    \/ GetClient
    \/ \E e \in ApiErrors : CreateRaises(e)
    \/ \E resp \in Responses : CreateAnswers(resp)
    \/ \E answer \in TaskAnswers : CompleteTask(answer)
    \/ TaskFails

Spec == Init /\ [][Next]_vars

(***************************************************************************)
(* Properties.                                                             *)
(***************************************************************************)
Last(seq) == seq[Len(seq)]

IsPrefix(p, q) == Len(p) <= Len(q) /\ SubSeq(q, 1, Len(p)) = p

Abs(n) == IF n < 0 THEN 0 - n ELSE n

\* A call of _run has ended.
Done == pc = "done"

\* The call in hand got as far as the credential lookup, with an image that
\* exists and was encoded, and found OPENAI_API_KEY unset or empty.
KeyMissingAtLookup ==
    /\ Done
    /\ steps = <<"exists", "open", "save", "getenv">>
    /\ ~Truthy(GetEnv("OPENAI_API_KEY"))

\* C1: with OPENAI_API_KEY absent or empty, _run on an existing, encodable
\* image ends by raising a configuration error to its caller, not by
\* returning a text.
C1_MissingKeyRaises ==
    KeyMissingAtLookup =>
        /\ Len(returned) = 1
        /\ returned[1].kind = "raise"

\* C2: for a path that does not exist, whatever the prompt and the
\* credential, _run returns a text that holds the path and says the file was
\* not found, and raises nothing.
C2_MissingFileIsText ==
    (Done /\ args.image_path \notin files) =>
        /\ Len(returned) = 1
        /\ returned[1].kind = "return"
        /\ Contains(returned[1].value, args.image_path)
        /\ Contains(returned[1].value, "not found")
        /\ caught = None

C2_Witness ==
    /\ Done
    /\ args.image_path \notin files
    /\ args.prompt # None
    /\ GetEnv("OPENAI_API_KEY") = None
    /\ returned = <<[kind |-> "return",
                     value |-> "Error: Image file not found at no_such.jpg"]>>

\* The kind of failure of a model call.
FailureKind(e) ==
    IF e.type = "AuthenticationError" THEN "authentication"
    ELSE IF e.type = "RateLimitError" THEN "rate limit"
    ELSE "other"

\* The completion request of the call in hand failed with exception e.
ModelCallFailed(e) ==
    /\ Done
    /\ Last(steps) = "create"
    /\ caught = Some(e)

\* C3: a failure of the model call is returned as text, never raised: an
\* authentication failure as a text about an invalid API key, a rate limit
\* as a rate-limit text, anything else as "Error analyzing image: " with the
\* exception's description; the texts of different kinds differ.
C3_ModelFailuresAreTexts ==
    \A e \in ApiErrors \cup {Exc("IndexError", "list index out of range")} :
        ModelCallFailed(e) =>
            /\ Len(returned) = 1
            /\ returned[1].kind = "return"
            /\ FailureKind(e) = "authentication" =>
                   Contains(returned[1].value, "Invalid OpenAI API key")
            /\ FailureKind(e) = "rate limit" =>
                   Contains(returned[1].value, "rate limit exceeded")
            /\ FailureKind(e) = "other" =>
                   returned[1].value = "Error analyzing image: " \o e.msg
            /\ \A other \in ApiErrors :
                   FailureKind(other) # FailureKind(e) =>
                       Handle(other).value # returned[1].value

C3_Witness ==
    /\ ModelCallFailed(Exc("RateLimitError",
                           "Error code: 429 - Rate limit reached"))
    /\ returned[1].value
           = "Error: OpenAI API rate limit exceeded. Please try again later."

\* The completion request of the call in hand was answered.
Answered == Done /\ response # None /\ Len(response[1].choices) > 0

\* C4: when the completion succeeds with empty content ("" or None), _run
\* returns "No response received"; a successful completion never gives "".
C4_EmptyContentFallsBack ==
    Answered =>
        /\ Len(returned) = 1
        /\ returned[1].kind = "return"
        /\ returned[1].value # ""
        /\ ~Truthy(response[1].choices[1]) =>
               returned[1].value = "No response received"

C4_Witness ==
    /\ Answered
    /\ response[1].choices[1] = Some("")
    /\ returned = <<[kind |-> "return", value |-> "No response received"]>>

\* The three kinds of result of a call.
IsAnalysis(value) ==
    /\ Answered
    /\ Truthy(response[1].choices[1])
    /\ value = response[1].choices[1][1]

IsFallback(value) ==
    /\ Answered
    /\ ~Truthy(response[1].choices[1])
    /\ value = "No response received"

IsErrorText(value) ==
    /\ StartsWith(value, "Error")
    /\ args.image_path \notin files \/ caught # None

\* C5: every call of _run ends with exactly one result, a text that is the
\* model's whole analysis, the fallback "No response received", or an error
\* text; a call in progress has handed over nothing.
C5_ExactlyOneTextResult ==
    /\ Done =>
        /\ Len(returned) = 1
        /\ returned[1].kind = "return"
        /\ \/ IsAnalysis(returned[1].value)
           \/ IsFallback(returned[1].value)
           \/ IsErrorText(returned[1].value)
    /\ ~Done => returned = <<>>

C5_Witness ==
    /\ Done
    /\ steps = RunOrder
    /\ IsAnalysis(returned[1].value)
    /\ returned[1].value = "- banana: 120g (90% confidence)"

\* The stages in the order the pipeline is to run them.
StageOrder ==
    <<"food_estimation_task", "find_recipe_task", "find_ingredients_task",
      "html_format_task">>

\* C6: the stages start in the order Estimate, FindRecipe,
\* ChooseIngredients, FormatHTML, none skipped, repeated or reordered, each
\* only once the output of the one before is there, and only the last one
\* writes recipe_recommendations.html.
C6_StagesInOrder ==
    /\ IsPrefix(started, StageOrder)
    /\ Len(outputs) <= Len(started)
    /\ Len(started) <= Len(outputs) + 1
    /\ crew_state = "finished" =>
           Len(outputs) = Len(StageOrder) /\ started = StageOrder
    /\ written # {} =>
           /\ Len(outputs) = Len(StageOrder)
           /\ written = {<<"recipe_recommendations.html",
                           outputs[Len(StageOrder)]>>}
    /\ written = {} => crew_state # "finished"

C6_Witness ==
    /\ crew_state = "finished"
    /\ started = StageOrder
    /\ written # {}

\* _encode_image has an image of a file whose longer side exceeds max_size
\* ready to save.
Downscaled ==
    /\ pc = "save"
    /\ Max(img[1].src.size[1], img[1].src.size[2]) > max_size

LongerSide(size) == Max(size[1], size[2])
ShorterSide(size) == IF size[1] <= size[2] THEN size[1] ELSE size[2]

\* C7: an image whose longer side exceeds 2048 px comes out with a longer
\* side of exactly 2048 px, and a shorter side less than one pixel away from
\* the input's shorter side times 2048 / (input's longer side).
C7_LongerSideIsMaxSize ==
    Downscaled =>
        /\ LongerSide(img[1].size) = 2048
        /\ Abs(ShorterSide(img[1].size) * LongerSide(img[1].src.size)
               - ShorterSide(img[1].src.size) * 2048)
             < LongerSide(img[1].src.size)

\* n / d rounded to the nearest integer, for n >= 0 and d > 0.
RoundDiv(n, d) == (2 * n + d) \div (2 * d)

\* C8: when an image is downscaled, each output dimension is the input
\* dimension times 2048 / (input's longer side), rounded to the nearest
\* integer.
C8_DimensionsRounded ==
    Downscaled =>
        \A i \in 1..2 :
            img[1].size[i]
                = RoundDiv(img[1].src.size[i] * 2048,
                           LongerSide(img[1].src.size))

\* The palette and alpha modes among the modes of the model.
PaletteAlphaModes == Modes \cap {"P", "PA", "RGBA", "RGBa", "LA", "La"}

\* C9: an image whose mode is a palette or alpha mode reaches the JPEG
\* encoder in a 3-channel mode, one the encoder can write.
C9_PaletteAlphaConverted ==
    (pc = "save" /\ img[1].src.mode \in PaletteAlphaModes) =>
        /\ img[1].mode = "RGB"
        /\ SaveJpeg(img[1]).ok

\* The steps of a call as the claim orders them: encoding is open and save.
StepOrder == <<"exists", "open", "save", "getenv", "create">>

\* C10: a call makes its external calls in the order existence check,
\* encoding, credential lookup, completion request, the request at most once
\* and only after all before it succeeded; once a step fails, none follows.
C10_StepsInOrder ==
    /\ IsPrefix(steps, StepOrder)
    /\ Cardinality({i \in 1..Len(steps) : steps[i] = "create"}) <= 1
    /\ pc \in {"idle", "exists"} => steps = <<>>
    /\ pc \notin {"idle", "done"} =>
           pc = StepOrder[Len(steps) + 1]
    /\ (Len(steps) > 0 /\ Last(steps) = "create") =>
           /\ args.image_path \in files
           /\ Truthy(GetEnv("OPENAI_API_KEY"))
    /\ (Done /\ args.image_path \notin files) => steps = <<"exists">>
    /\ (Done /\ caught # None
             /\ StartsWith(caught[1].msg, "Failed to encode image")) =>
           Last(steps) \in {"open", "save"}
    /\ (Done /\ ~Truthy(GetEnv("OPENAI_API_KEY"))) =>
           Len(steps) <= 4

C10_Witness ==
    /\ Done
    /\ steps = StepOrder
    /\ response # None

====
